---- MODULE Spec2Model ----
(***************************************************************************)
(* Model of online_llm.py: the GeminiAPI wrapper (constructor, complete    *)
(* and streaming generation), list_available_models, the two convenience   *)
(* functions and the demonstration run under `if __name__ == "__main__"`.  *)
(*                                                                         *)
(* The provider library (google.generativeai) is the environment.  Its     *)
(* answers (texts, chunk sequences, model lists, failures) are inputs      *)
(* chosen with \E.  Two facts about it are visible in the source and are   *)
(* modelled: genai.configure(api_key=...) sets ONE process-wide key        *)
(* (lines 21 and 72 call it on the module, not on an object), and          *)
(* genai.GenerativeModel(model_name) receives the model name only (line    *)
(* 22), so the key a request is sent with comes from the process-wide      *)
(* configuration; the library takes it when the handle makes its first     *)
(* request and keeps it for that handle afterwards.                        *)
(***************************************************************************)
EXTENDS Naturals, Sequences, FiniteSets, TLC

VARIABLES
    env,         \* value of GEMINI_API_KEY in the process environment
    configured,  \* key last given to genai.configure (process-wide)
    instances,   \* GeminiAPI objects alive, in creation order
    streams,     \* generators returned by generate_stream, in creation order
    last,        \* outcome of the last call: what the caller saw and the provider calls made
    pc,          \* position of the __main__ script ("imported" when used as a module)
    out,         \* lines printed by the __main__ script
    attempted    \* demonstration steps entered by the __main__ script, in order

vars == <<env, configured, instances, streams, last, pc, out, attempted>>

----------------------------------------------------------------------------
(* Bounds of the model *)

MaxInstances == 2
MaxChunks == 3
MaxModels == 3

(* Input alphabets *)

Unset == "<unset>"                       \* os.getenv returns None
Keys == {"k1", "k2"}
EnvValues == {Unset, ""} \cup Keys
DefaultModel == "gemini-1.5-flash"
ModelNames == {DefaultModel, "gemini-pro"}
Prompts == {"Hi", "x"}
Options == {"{}", "{temperature: 0}"}    \* the **kwargs map, passed through verbatim
Texts == {"Hello", "Hi there"}
Descs == {"quota exceeded", "network down"}   \* str(e) of a provider failure
ChunkTexts == {"", "a", "b"}             \* chunk.text; "" is the empty fragment

GenMethod == "generateContent"
CatalogModels ==
    { [name |-> "A", supported_generation_methods |-> {GenMethod}],
      [name |-> "B", supported_generation_methods |-> {"embedContent"}],
      [name |-> "C", supported_generation_methods |-> {GenMethod, "countTokens"}] }

SeqsUpTo(S, n) == UNION { [1..k -> S] : k \in 0..n }

(* What the provider does for one generate_content(prompt) without stream:  *)
(* returns a response with text, raises in the call, or raises when         *)
(* response.text is read.                                                   *)
ResponseBehaviours ==
    [type : {"ok"}, data : Texts] \cup [type : {"raise_call", "raise_text"}, data : Descs]

(* What the provider does for one generate_content(prompt, stream=True):    *)
(* the chunks it delivers and then how it stops: normal end, or a failure   *)
(* (term "raise_call": the call itself raises, no chunk delivered).         *)
StreamBehaviours ==
    [chunks : SeqsUpTo(ChunkTexts, MaxChunks), term : {"end"}, desc : {""}]
    \cup [chunks : SeqsUpTo(ChunkTexts, MaxChunks), term : {"raise_iter"}, desc : Descs]
    \cup [chunks : {<<>>}, term : {"raise_call"}, desc : Descs]

NoScript == [chunks |-> <<>>, term |-> "unset", desc |-> ""]

(* What the provider does for one list_models(): the models it delivers and *)
(* a failure description ("" for none) raised after them.                   *)
ListBehaviours ==
    [models : SeqsUpTo(CatalogModels, MaxModels), fail : {""} \cup Descs]

----------------------------------------------------------------------------
(* The functions of the module, as functions of their inputs *)

Falsy(v) == v = Unset \/ v = ""

KeyMissingMsg == "GEMINI_API_KEY not found in environment variables"

NoArgs == [env |-> Unset]
NoCall == [op |-> "none", args |-> NoArgs, kind |-> "ok", value |-> "", calls |-> <<>>]

(* Variant of GeminiAPI_init that tests `api_key is None` instead of        *)
(* `not api_key`: an empty key passes the test.                            *)
GeminiAPI_init_NoneOnly(e, conf, model_name) ==
    IF e = Unset
    THEN [kind |-> "ValueError", value |-> KeyMissingMsg, configured |-> conf,
          made |-> <<>>, calls |-> <<>>]
    ELSE [kind |-> "ok", value |-> "", configured |-> e,
          made |-> << [model_name |-> model_name, api_key |-> e, client |-> Unset] >>,
          calls |-> << <<"configure", e>>, <<"GenerativeModel", model_name>> >>]

(* GeminiAPI.__init__(model_name), run with GEMINI_API_KEY = e while the     *)
(* provider is configured with conf.  made: the object created, if any.    *)
GeminiAPI_init(e, conf, model_name) ==
    IF Falsy(e)
    THEN [kind |-> "ValueError", value |-> KeyMissingMsg, configured |-> conf,
          made |-> <<>>, calls |-> <<>>]
    ELSE [kind |-> "ok", value |-> "", configured |-> e,
          made |-> << [model_name |-> model_name, api_key |-> e, client |-> Unset] >>,
          calls |-> << <<"configure", e>>, <<"GenerativeModel", model_name>> >>]

(* The key a request of handle inst is sent with: the one its client was    *)
(* made with, or, at its first request, the process-wide configured key.   *)
RequestKey(inst, conf) == IF inst.client = Unset THEN conf ELSE inst.client

(* Variant of generate_response that sends the request a second time when  *)
(* the first attempt fails.                                                *)
generate_response_Retry(inst, conf, prompt, opts, beh) ==
    LET key == RequestKey(inst, conf)
        req == <<"generate_content", inst.model_name, key, prompt, opts, "stream=False">>
        bound == [inst EXCEPT !.client = key]
    IN  IF beh.type = "ok"
        THEN [kind |-> "ok", value |-> beh.data, self |-> bound, calls |-> <<req>>]
        ELSE [kind |-> "Exception", value |-> "Error generating response: " \o beh.data,
              self |-> bound, calls |-> <<req, req>>]

(* GeminiAPI.generate_response(prompt, **kwargs) on object inst *)
generate_response(inst, conf, prompt, opts, beh) ==
    LET key == RequestKey(inst, conf)
        req == <<"generate_content", inst.model_name, key, prompt, opts, "stream=False">>
        bound == [inst EXCEPT !.client = key]
    IN  IF beh.type = "ok"
        THEN [kind |-> "ok", value |-> beh.data, self |-> bound, calls |-> <<req>>]
        ELSE [kind |-> "Exception", value |-> "Error generating response: " \o beh.data,
              self |-> bound, calls |-> <<req>>]

(* Variant of generate_stream that is not a generator: the request is sent *)
(* when the method is called.                                              *)
generate_stream_Eager(self, prompt, opts) ==
    [self |-> self, prompt |-> prompt, opts |-> opts, state |-> "created",
     script |-> NoScript, pos |-> 0, requests |-> 1, yielded |-> <<>>, error |-> ""]

(* GeminiAPI.generate_stream(prompt, **kwargs) on object number self: the   *)
(* call only creates the generator; no line of the body has run yet.       *)
generate_stream(self, prompt, opts) ==
    [self |-> self, prompt |-> prompt, opts |-> opts, state |-> "created",
     script |-> NoScript, pos |-> 0, requests |-> 0, yielded |-> <<>>, error |-> ""]

(* The loop of generate_stream resumed after pos chunks were taken: runs    *)
(* to the next yield, to the end of the provider's stream, or to a failure. *)
RECURSIVE ForLoop(_, _)

(* Variant of ForLoop without the `if chunk.text` test *)
ForLoop_NoSkip(script, pos) ==
    IF pos = Len(script.chunks)
    THEN IF script.term = "end"
         THEN [kind |-> "StopIteration", value |-> "", pos |-> pos]
         ELSE [kind |-> "Exception",
               value |-> "Error generating streaming response: " \o script.desc,
               pos |-> pos]
    ELSE [kind |-> "yield", value |-> script.chunks[pos + 1], pos |-> pos + 1]

(* Variant of ForLoop whose except clause returns instead of raising *)
ForLoop_Swallow(script, pos) ==
    IF pos = Len(script.chunks)
    THEN [kind |-> "StopIteration", value |-> "", pos |-> pos]
    ELSE IF script.chunks[pos + 1] # ""
         THEN [kind |-> "yield", value |-> script.chunks[pos + 1], pos |-> pos + 1]
         ELSE ForLoop(script, pos + 1)

ForLoop(script, pos) ==
    IF pos = Len(script.chunks)
    THEN IF script.term = "end"
         THEN [kind |-> "StopIteration", value |-> "", pos |-> pos]
         ELSE [kind |-> "Exception",
               value |-> "Error generating streaming response: " \o script.desc,
               pos |-> pos]
    ELSE IF script.chunks[pos + 1] # ""
         THEN [kind |-> "yield", value |-> script.chunks[pos + 1], pos |-> pos + 1]
         ELSE ForLoop(script, pos + 1)

(* One next() on generator st of object inst.  beh is what the provider     *)
(* will do with the request, used only if this pull issues it.             *)
generator_next(st, inst, conf, beh) ==
    IF st.state \in {"ended", "raised"}
    THEN [st |-> st, self |-> inst, kind |-> "StopIteration", value |-> "", calls |-> <<>>]
    ELSE LET first == st.state = "created"
             script == IF first THEN beh ELSE st.script
             key == RequestKey(inst, conf)
             req == <<"generate_content", inst.model_name, key, st.prompt, st.opts,
                      "stream=True">>
             r == ForLoop(script, st.pos)
         IN  [st |-> [st EXCEPT
                        !.state = CASE r.kind = "yield" -> "suspended"
                                    [] r.kind = "StopIteration" -> "ended"
                                    [] OTHER -> "raised",
                        !.script = script,
                        !.pos = r.pos,
                        !.requests = IF first THEN @ + 1 ELSE @,
                        !.yielded = IF r.kind = "yield" THEN Append(@, r.value) ELSE @,
                        !.error = IF r.kind = "Exception" THEN r.value ELSE @],
              self |-> IF first THEN [inst EXCEPT !.client = key] ELSE inst,
              kind |-> r.kind, value |-> r.value,
              calls |-> IF first THEN <<req>> ELSE <<>>]

(* The filter loop of list_available_models *)
RECURSIVE FilterModels(_)

(* Variant of FilterModels without the supported_generation_methods test *)
FilterModels_All(models) ==
    IF models = <<>> THEN <<>>
    ELSE <<Head(models).name>> \o FilterModels(Tail(models))

FilterModels(models) ==
    IF models = <<>> THEN <<>>
    ELSE IF GenMethod \in Head(models).supported_generation_methods
         THEN <<Head(models).name>> \o FilterModels(Tail(models))
         ELSE FilterModels(Tail(models))

(* list_available_models() with GEMINI_API_KEY = e *)
list_available_models(e, conf, beh) ==
    IF Falsy(e)
    THEN [kind |-> "Exception", value |-> "Error listing models: " \o KeyMissingMsg,
          configured |-> conf, calls |-> <<>>]
    ELSE IF beh.fail # ""
    THEN [kind |-> "Exception", value |-> "Error listing models: " \o beh.fail,
          configured |-> e, calls |-> << <<"configure", e>>, <<"list_models", e>> >>]
    ELSE [kind |-> "ok", value |-> FilterModels(beh.models),
          configured |-> e, calls |-> << <<"configure", e>>, <<"list_models", e>> >>]

(* Variant of get_gemini_response that constructs GeminiAPI() without      *)
(* passing model_name on.                                                  *)
get_gemini_response_DefaultModel(e, conf, prompt, model_name, opts, beh) ==
    LET gemini == GeminiAPI_init(e, conf, DefaultModel)
    IN  IF gemini.kind # "ok"
        THEN [kind |-> gemini.kind, value |-> gemini.value,
              configured |-> gemini.configured, calls |-> gemini.calls]
        ELSE LET r == generate_response(gemini.made[1], gemini.configured, prompt, opts, beh)
             IN  [kind |-> r.kind, value |-> r.value,
                  configured |-> gemini.configured, calls |-> gemini.calls \o r.calls]

(* get_gemini_response(prompt, model_name, **kwargs) *)
get_gemini_response(e, conf, prompt, model_name, opts, beh) ==
    LET gemini == GeminiAPI_init(e, conf, model_name)
    IN  IF gemini.kind # "ok"
        THEN [kind |-> gemini.kind, value |-> gemini.value,
              configured |-> gemini.configured, calls |-> gemini.calls]
        ELSE LET r == generate_response(gemini.made[1], gemini.configured, prompt, opts, beh)
             IN  [kind |-> r.kind, value |-> r.value,
                  configured |-> gemini.configured, calls |-> gemini.calls \o r.calls]

(* get_gemini_stream(prompt, model_name, **kwargs); self is the number the  *)
(* object it constructs gets.  made/stream: the object and the generator   *)
(* returned, if any.                                                       *)
get_gemini_stream(e, conf, self, prompt, model_name, opts) ==
    LET gemini == GeminiAPI_init(e, conf, model_name)
    IN  IF gemini.kind # "ok"
        THEN [kind |-> gemini.kind, value |-> gemini.value,
              configured |-> gemini.configured, made |-> <<>>, stream |-> <<>>,
              calls |-> gemini.calls]
        ELSE [kind |-> "ok", value |-> "",
              configured |-> gemini.configured, made |-> gemini.made,
              stream |-> << generate_stream(self, prompt, opts) >>,
              calls |-> gemini.calls]

----------------------------------------------------------------------------
(* The module used as a library: any caller, any order of calls *)

Init ==
    /\ env \in EnvValues
    /\ configured = Unset
    /\ instances = <<>>
    /\ streams = <<>>
    /\ last = NoCall
    /\ pc = "imported"
    /\ out = <<>>
    /\ attempted = <<>>

MainUnchanged == UNCHANGED <<pc, out, attempted>>

(* The environment variable is changed from outside the module *)
SetEnv ==
    /\ pc = "imported"
    /\ \E v \in EnvValues : v # env /\ env' = v
    /\ UNCHANGED <<configured, instances, streams, last>>
    /\ MainUnchanged

Construct ==
    /\ pc = "imported"
    /\ Len(instances) < MaxInstances
    /\ \E m \in ModelNames :
         LET r == GeminiAPI_init(env, configured, m)
         IN  /\ configured' = r.configured
             /\ instances' = instances \o r.made
             /\ last' = [op |-> "GeminiAPI", args |-> [env |-> env, model_name |-> m],
                         kind |-> r.kind, value |-> r.value, calls |-> r.calls]
    /\ UNCHANGED <<env, streams>>
    /\ MainUnchanged

GenerateResponse ==
    /\ pc = "imported"
    /\ \E i \in 1..Len(instances), p \in Prompts, o \in Options, b \in ResponseBehaviours :
         LET r == generate_response(instances[i], configured, p, o, b)
         IN  /\ instances' = [instances EXCEPT ![i] = r.self]
             /\ last' = [op |-> "generate_response",
                         args |-> [self |-> i, prompt |-> p, opts |-> o, beh |-> b],
                         kind |-> r.kind, value |-> r.value, calls |-> r.calls]
    /\ UNCHANGED <<env, configured, streams>>
    /\ MainUnchanged

(* The caller holds one generator at a time: a new one replaces the one it *)
(* held, which is dropped.                                                *)
GenerateStream ==
    /\ pc = "imported"
    /\ \E i \in 1..Len(instances), p \in Prompts, o \in Options :
         /\ streams' = << generate_stream(i, p, o) >>
         /\ last' = [op |-> "generate_stream",
                     args |-> [self |-> i, prompt |-> p, opts |-> o],
                     kind |-> "ok", value |-> "", calls |-> <<>>]
    /\ UNCHANGED <<env, configured, instances>>
    /\ MainUnchanged

(* The caller pulls the next fragment of a generator it holds *)
Pull ==
    /\ pc = "imported"
    /\ \E s \in 1..Len(streams) :
       \E b \in (IF streams[s].state = "created" THEN StreamBehaviours
                 ELSE {streams[s].script}) :
         LET st == streams[s]
             r == generator_next(st, instances[st.self], configured, b)
         IN  /\ streams' = [streams EXCEPT ![s] = r.st]
             /\ instances' = [instances EXCEPT ![st.self] = r.self]
             /\ last' = [op |-> "next", args |-> [stream |-> s],
                         kind |-> r.kind, value |-> r.value, calls |-> r.calls]
    /\ UNCHANGED <<env, configured>>
    /\ MainUnchanged

ListAvailableModels ==
    /\ pc = "imported"
    /\ \E b \in ListBehaviours :
         LET r == list_available_models(env, configured, b)
         IN  /\ configured' = r.configured
             /\ last' = [op |-> "list_available_models", args |-> [env |-> env, beh |-> b],
                         kind |-> r.kind, value |-> r.value, calls |-> r.calls]
    /\ UNCHANGED <<env, instances, streams>>
    /\ MainUnchanged

GetGeminiResponse ==
    /\ pc = "imported"
    /\ \E p \in Prompts, m \in ModelNames, o \in Options, b \in ResponseBehaviours :
         LET r == get_gemini_response(env, configured, p, m, o, b)
         IN  /\ configured' = r.configured
             /\ last' = [op |-> "get_gemini_response",
                         args |-> [env |-> env, prompt |-> p,
                                   model_name |-> m, opts |-> o, beh |-> b],
                         kind |-> r.kind, value |-> r.value, calls |-> r.calls]
    /\ UNCHANGED <<env, instances, streams>>
    /\ MainUnchanged

GetGeminiStream ==
    /\ pc = "imported"
    /\ Falsy(env) \/ Len(instances) < MaxInstances
    /\ \E p \in Prompts, m \in ModelNames, o \in Options :
         LET r == get_gemini_stream(env, configured, Len(instances) + 1, p, m, o)
         IN  /\ configured' = r.configured
             /\ instances' = instances \o r.made
             /\ streams' = IF r.kind = "ok" THEN r.stream ELSE streams
             /\ last' = [op |-> "get_gemini_stream",
                         args |-> [env |-> env, prompt |-> p,
                                   model_name |-> m, opts |-> o],
                         kind |-> r.kind, value |-> r.value, calls |-> r.calls]
    /\ UNCHANGED env
    /\ MainUnchanged

(* Callers that construct objects and ask for complete responses, while   *)
(* the environment variable may change between calls.                     *)
Next ==
    \/ SetEnv
    \/ Construct
    \/ GenerateResponse

Spec == Init /\ [][Next]_vars

(* Callers that list the models *)
ListNext ==
    \/ SetEnv
    \/ ListAvailableModels

ListSpec == Init /\ [][ListNext]_vars

(* Callers that stream *)
StreamNext ==
    \/ Construct
    \/ GenerateStream
    \/ GetGeminiStream
    \/ Pull

StreamSpec == Init /\ [][StreamNext]_vars

(* Callers that use only the convenience functions *)
ConvNext ==
    \/ SetEnv
    \/ GetGeminiResponse
    \/ GetGeminiStream

ConvSpec == Init /\ [][ConvNext]_vars

----------------------------------------------------------------------------
(* The module run as a script: the three demonstration steps *)

Separator == "\n==================================================\n"
JokePrompt == "Tell me a short joke"
StoryPrompt == "Write a short story about a robot"
NoOptions == "{}"

MainInit ==
    /\ env \in EnvValues
    /\ configured = Unset
    /\ instances = <<>>
    /\ streams = <<>>
    /\ last = NoCall
    /\ pc = "list"
    /\ out = <<>>
    /\ attempted = <<>>

RECURSIVE ModelLines(_)
ModelLines(models) ==
    IF models = <<>> THEN <<>>
    ELSE <<"  - " \o Head(models)>> \o ModelLines(Tail(models))

(* Variant of main_list whose error path prints and ends the run *)
main_list_Abort(r) ==
    [out |-> IF r.kind = "ok"
             THEN <<"Available models:">> \o ModelLines(r.value) \o <<Separator>>
             ELSE <<"Available models:", "Error listing models: " \o r.value>>,
     pc |-> IF r.kind = "ok" THEN "complete" ELSE "done"]

(* What the first try block prints for outcome r of list_available_models,  *)
(* and where the script goes next.                                         *)
main_list(r) ==
    [out |-> IF r.kind = "ok"
             THEN <<"Available models:">> \o ModelLines(r.value) \o <<Separator>>
             ELSE <<"Available models:", "Error listing models: " \o r.value>>,
     pc |-> "complete"]

(* The same for the second try block and outcome r of get_gemini_response *)
main_complete(r) ==
    [out |-> IF r.kind = "ok"
             THEN <<"Complete response:", r.value, Separator>>
             ELSE <<"Error: " \o r.value>>,
     pc |-> "stream"]

(* The third try block up to the first pull: outcome r of get_gemini_stream *)
main_stream(r) ==
    [out |-> IF r.kind = "ok"
             THEN <<"Streaming response:">>
             ELSE <<"Streaming response:", "Error: " \o r.value>>,
     pc |-> IF r.kind = "ok" THEN "streaming" ELSE "done"]

(* One turn of `for chunk in ...`: outcome r of the pull *)
main_stream_next(r) ==
    [out |-> CASE r.kind = "yield" -> <<r.value>>
               [] r.kind = "StopIteration" -> <<"\n">>
               [] OTHER -> <<"Error: " \o r.value>>,
     pc |-> IF r.kind = "yield" THEN "streaming" ELSE "done"]

MainList ==
    /\ pc = "list"
    /\ \E b \in ListBehaviours :
         LET r == list_available_models(env, configured, b)
             m == main_list(r)
         IN  /\ configured' = r.configured
             /\ last' = [op |-> "list_available_models", args |-> [env |-> env, beh |-> b],
                         kind |-> r.kind, value |-> r.value, calls |-> r.calls]
             /\ out' = out \o m.out
             /\ pc' = m.pc
    /\ attempted' = Append(attempted, "list")
    /\ UNCHANGED <<env, instances, streams>>

MainComplete ==
    /\ pc = "complete"
    /\ \E b \in ResponseBehaviours :
         LET r == get_gemini_response(env, configured, JokePrompt, DefaultModel, NoOptions, b)
             m == main_complete(r)
         IN  /\ configured' = r.configured
             /\ last' = [op |-> "get_gemini_response",
                         args |-> [env |-> env, prompt |-> JokePrompt,
                                   model_name |-> DefaultModel, opts |-> NoOptions, beh |-> b],
                         kind |-> r.kind, value |-> r.value, calls |-> r.calls]
             /\ out' = out \o m.out
             /\ pc' = m.pc
    /\ attempted' = Append(attempted, "complete")
    /\ UNCHANGED <<env, instances, streams>>

MainStream ==
    /\ pc = "stream"
    /\ LET r == get_gemini_stream(env, configured, Len(instances) + 1, StoryPrompt,
                                  DefaultModel, NoOptions)
           m == main_stream(r)
       IN  /\ configured' = r.configured
           /\ instances' = instances \o r.made
           /\ streams' = IF r.kind = "ok" THEN r.stream ELSE streams
           /\ last' = [op |-> "get_gemini_stream",
                       args |-> [env |-> env, prompt |-> StoryPrompt,
                                 model_name |-> DefaultModel, opts |-> NoOptions],
                       kind |-> r.kind, value |-> r.value, calls |-> r.calls]
           /\ out' = out \o m.out
           /\ pc' = m.pc
    /\ attempted' = Append(attempted, "stream")
    /\ UNCHANGED env

MainStreamNext ==
    /\ pc = "streaming"
    /\ \E b \in (IF streams[1].state = "created" THEN StreamBehaviours
                 ELSE {streams[1].script}) :
         LET st == streams[1]
             r == generator_next(st, instances[st.self], configured, b)
             m == main_stream_next(r)
         IN  /\ streams' = [streams EXCEPT ![1] = r.st]
             /\ instances' = [instances EXCEPT ![st.self] = r.self]
             /\ last' = [op |-> "next", args |-> [stream |-> 1],
                         kind |-> r.kind, value |-> r.value, calls |-> r.calls]
             /\ out' = out \o m.out
             /\ pc' = m.pc
    /\ UNCHANGED <<env, configured, attempted>>

MainNext ==
    \/ MainList
    \/ MainComplete
    \/ MainStream
    \/ MainStreamNext

(* The interpreter runs the script on: every step that can be taken is taken *)
MainSpec == MainInit /\ [][MainNext]_vars /\ WF_vars(MainNext)

----------------------------------------------------------------------------
(* Vocabulary of the properties *)

IsError(k) == k \in {"ValueError", "Exception"}

NonEmpty(chunks) == SelectSeq(chunks, LAMBDA c : c # "")

RECURSIVE Join(_)
Join(fragments) ==
    IF fragments = <<>> THEN "" ELSE Head(fragments) \o Join(Tail(fragments))

Generating(m) == GenMethod \in m.supported_generation_methods

NamesOf(models) == [i \in 1..Len(models) |-> models[i].name]

AllSteps == <<"list", "complete", "stream">>

HasStream == streams # <<>>

(* C1: list_available_models called with GEMINI_API_KEY absent fails with    *)
(* the error kind the constructor uses for a missing key (ValueError, the   *)
(* ConfigurationError kind), not with the kind used for provider failures,  *)
(* and makes no provider call.                                              *)
C1_ListMissingKeyIsConfigurationError ==
    (last.op = "list_available_models" /\ Falsy(last.args.env))
        => (last.kind = "ValueError" /\ last.calls = <<>>)

(* C2: a construction with GEMINI_API_KEY unset or empty fails with          *)
(* ValueError for every model name, makes no provider call, leaves the      *)
(* provider configuration as it was and creates no object.                  *)
C2_ConstructMissingKeyStep ==
    (Falsy(env) /\ last'.op = "GeminiAPI" /\ last' # last)
        => /\ last'.kind = "ValueError"
           /\ last'.value = KeyMissingMsg
           /\ last'.calls = <<>>
           /\ configured' = configured
           /\ instances' = instances

(* C2, stated of every step: a construction without a key fails with       *)
(* ValueError and changes nothing.                                         *)
C2_ConstructMissingKey == [][C2_ConstructMissingKeyStep]_vars

C2_Witness ==
    /\ last.op = "GeminiAPI" /\ last.args.env = "" /\ last.args.model_name = "gemini-pro"
    /\ last.kind = "ValueError"
    /\ Len(instances) = 1 /\ configured = "k1"

(* C3: when the provider's stream is delivered without failure, what the     *)
(* generator has yielded so far is the non-empty chunks among those taken,  *)
(* in order; a generator ends only where the provider's stream ends, and    *)
(* then the fragments are exactly the provider's non-empty chunks and their *)
(* concatenation is the provider's full text.                               *)
C3_StreamIsFilteredProviderSequence ==
    \A s \in 1..Len(streams) :
        LET st == streams[s]
        IN  st.script.term = "end" =>
              /\ st.state # "raised"
              /\ st.yielded = NonEmpty(SubSeq(st.script.chunks, 1, st.pos))
              /\ st.state = "ended" =>
                   /\ st.pos = Len(st.script.chunks)
                   /\ st.yielded = NonEmpty(st.script.chunks)
                   /\ Join(st.yielded) = Join(st.script.chunks)

C3_Witness ==
    /\ HasStream
    /\ streams[1].state = "ended"
    /\ streams[1].script.chunks = <<"b", "", "a">>
    /\ streams[1].yielded = <<"b", "a">>

(* C4: when the provider fails, at the start of the request or after some    *)
(* chunks, the caller has seen exactly the non-empty chunks delivered       *)
(* before the failure, the pull that reaches the failure raises Exception   *)
(* with the failure's description, the generator is never suspended or      *)
(* ended past the failure, and a raised generator yields nothing more.      *)
C4_FailureState ==
    \A s \in 1..Len(streams) :
        LET st == streams[s]
        IN  /\ st.state = "raised" =>
                 /\ st.script.term \in {"raise_call", "raise_iter"}
                 /\ st.pos = Len(st.script.chunks)
                 /\ st.yielded = NonEmpty(st.script.chunks)
                 /\ st.error = "Error generating streaming response: " \o st.script.desc
            /\ st.script.term \in {"raise_call", "raise_iter"} =>
                 /\ st.state # "ended"
                 /\ st.state = "suspended" =>
                      (st.pos >= 1 /\ st.script.chunks[st.pos] # "" /\ st.error = "")
            /\ (last.op = "next" /\ last.kind = "Exception") =>
                 (st.state = "raised" /\ last.value = st.error)

C4_AfterFailureStep ==
    (HasStream /\ streams[1].state = "raised" /\ last'.op = "next" /\ last' # last)
        => (last'.kind = "StopIteration" /\ streams' = streams)

(* C4, the state part in every state and the step part in every step: a    *)
(* provider failure is raised where it is reached, after the fragments     *)
(* before it, and nothing is yielded after it.                             *)
C4_FailureMidStream == [](C4_FailureState) /\ [][C4_AfterFailureStep]_vars

C4_Witness ==
    /\ HasStream
    /\ streams[1].state = "raised"
    /\ streams[1].script.chunks = <<"a", "">>
    /\ streams[1].yielded = <<"a">>
    /\ last.op = "next" /\ last.kind = "StopIteration"

(* C5: when the provider raises during generate_response, in the call or     *)
(* when the text is read, the call raises Exception with the failure's      *)
(* description in its message, returns nothing, and has made exactly one    *)
(* generation request.                                                      *)
C5_CompleteFailure ==
    (last.op = "generate_response" /\ last.args.beh.type # "ok")
        => /\ last.kind = "Exception"
           /\ last.value = "Error generating response: " \o last.args.beh.data
           /\ Len(last.calls) = 1
           /\ last.calls[1][1] = "generate_content"
           /\ last.calls[1][4] = last.args.prompt
           /\ last.calls[1][5] = last.args.opts

C5_Witness ==
    /\ last.op = "generate_response"
    /\ last.args.beh = [type |-> "raise_text", data |-> "network down"]
    /\ last.kind = "Exception"

(* C6: with a key present, list_available_models returns the names of the    *)
(* models that support generateContent, in the provider's order, nothing    *)
(* added, dropped or reordered; a provider failure is raised as Exception   *)
(* and no list is returned.                                                 *)
C6_ListFiltersInOrder ==
    (last.op = "list_available_models" /\ ~Falsy(last.args.env))
        => IF last.args.beh.fail = ""
           THEN /\ last.kind = "ok"
                /\ last.value = NamesOf(SelectSeq(last.args.beh.models, Generating))
           ELSE /\ last.kind = "Exception"
                /\ last.value = "Error listing models: " \o last.args.beh.fail

C6_Witness ==
    /\ last.op = "list_available_models"
    /\ last.kind = "ok"
    /\ NamesOf(last.args.beh.models) = <<"A", "B", "C">>
    /\ last.value = <<"A", "C">>

(* C7: run as a script, the three steps are entered once each and in order   *)
(* whatever fails; an error of a step is printed with its prefix and the    *)
(* next step still runs; the run reaches its end.                           *)
C7_MainState ==
    /\ \E n \in 0..Len(AllSteps) : attempted = SubSeq(AllSteps, 1, n)
    /\ pc = "complete" => attempted = SubSeq(AllSteps, 1, 1)
    /\ pc = "stream" => attempted = SubSeq(AllSteps, 1, 2)
    /\ pc \in {"streaming", "done"} => attempted = AllSteps
    /\ IsError(last.kind) =>
         out[Len(out)] = (IF last.op = "list_available_models"
                          THEN "Error listing models: " ELSE "Error: ") \o last.value

(* C7: in every state the steps entered are a prefix of list, complete,    *)
(* stream and errors are printed, and every run reaches pc = "done".        *)
C7_MainRunsAllSteps == [](C7_MainState) /\ <>(pc = "done")

C7_Witness ==
    /\ pc = "done"
    /\ out[2] = "Error listing models: Error listing models: quota exceeded"
    /\ out[3] = "Error: Error generating response: network down"
    /\ HasStream /\ streams[1].state = "raised" /\ streams[1].yielded = <<"a">>

(* C8: every generation request of an object is sent with the model name     *)
(* and the API key read when that object was constructed, whatever was      *)
(* constructed or configured in between.                                    *)
C8_InstanceKeepsItsKey ==
    last.op = "generate_response"
        => /\ last.calls[1][2] = instances[last.args.self].model_name
           /\ last.calls[1][3] = instances[last.args.self].api_key

(* C9: get_gemini_response has the outcome and makes the provider calls of   *)
(* GeminiAPI(model_name).generate_response(prompt, **kwargs);               *)
(* get_gemini_stream returns the generator of                               *)
(* GeminiAPI(model_name).generate_stream(prompt, **kwargs) on an object     *)
(* constructed the same way; get_gemini_response leaves no object or        *)
(* generator behind.                                                        *)
C9_ResponsePassThrough ==
    last.op = "get_gemini_response" =>
        LET a == last.args
            c == GeminiAPI_init(a.env, Unset, a.model_name)
        IN  IF c.kind # "ok"
            THEN last.kind = c.kind /\ last.value = c.value /\ last.calls = c.calls
            ELSE LET g == generate_response(c.made[1], c.configured, a.prompt, a.opts, a.beh)
                 IN  /\ last.kind = g.kind
                     /\ last.value = g.value
                     /\ last.calls = c.calls \o g.calls
                     /\ configured = c.configured

C9_StreamPassThrough ==
    last.op = "get_gemini_stream" =>
        LET a == last.args
            c == GeminiAPI_init(a.env, Unset, a.model_name)
        IN  IF c.kind # "ok"
            THEN last.kind = c.kind /\ last.value = c.value /\ last.calls = c.calls
            ELSE /\ last.kind = "ok"
                 /\ last.calls = c.calls
                 /\ configured = c.configured
                 /\ instances[Len(instances)] = c.made[1]
                 /\ streams = << generate_stream(Len(instances), a.prompt, a.opts) >>

C9_NothingKeptStep ==
    (last'.op = "get_gemini_response" /\ last' # last)
        => (instances' = instances /\ streams' = streams)

(* C9, both pass-throughs in every state and the step part in every step *)
C9_ConveniencePassThrough ==
    [](C9_ResponsePassThrough /\ C9_StreamPassThrough) /\ [][C9_NothingKeptStep]_vars

C9_Witness ==
    /\ last.op = "get_gemini_response"
    /\ last.args.model_name = "gemini-pro" /\ last.args.prompt = "Hi"
    /\ last.args.opts = "{temperature: 0}"
    /\ last.kind = "ok" /\ last.value = "Hello"
    /\ HasStream

(* C10: a generator makes no provider request before its first pull and at   *)
(* most one in its life; chunks are taken only by pulls, each pull up to    *)
(* and including the next non-empty chunk and no further; an ended or       *)
(* raised generator yields nothing and makes no provider call; with the key *)
(* missing get_gemini_stream fails at the call.                             *)
C10_StreamState ==
    /\ \A s \in 1..Len(streams) :
         LET st == streams[s]
         IN  /\ st.requests <= 1
             /\ st.state = "created" =>
                  (st.requests = 0 /\ st.pos = 0 /\ st.yielded = <<>> /\ st.script = NoScript)
             /\ st.state # "created" => st.requests = 1
             /\ st.state = "suspended" =>
                  /\ st.pos >= 1
                  /\ st.script.chunks[st.pos] # ""
                  /\ st.yielded[Len(st.yielded)] = st.script.chunks[st.pos]
    /\ (last.op \in {"generate_stream", "get_gemini_stream"} /\ last.kind = "ok") =>
         /\ streams[1].state = "created"
         /\ \A k \in 1..Len(last.calls) : last.calls[k][1] # "generate_content"
    /\ (last.op = "get_gemini_stream" /\ Falsy(last.args.env)) =>
         (last.kind = "ValueError" /\ last.calls = <<>>)

C10_PullStep ==
    /\ (HasStream /\ streams' # <<>>
          /\ (streams'[1].pos > streams[1].pos \/ streams'[1].requests > streams[1].requests))
         => /\ last'.op = "next"
            /\ \A k \in (streams[1].pos + 1)..(streams'[1].pos - 1) :
                  streams'[1].script.chunks[k] = ""
    /\ (HasStream /\ streams[1].state \in {"ended", "raised"}
          /\ last'.op = "next" /\ last' # last)
         => (last'.kind = "StopIteration" /\ last'.calls = <<>> /\ streams' = streams)

(* C10, the state part in every state and the step part in every step: the *)
(* generator acts only when pulled.                                        *)
C10_StreamIsPullDriven == [](C10_StreamState) /\ [][C10_PullStep]_vars

C10_Witness ==
    /\ HasStream
    /\ streams[1].state = "suspended"
    /\ streams[1].script.chunks = <<"", "a", "b">>
    /\ streams[1].pos = 2
    /\ streams[1].requests = 1

====
